---- MODULE Spec2Model ----
(***************************************************************************)
(* LangChainServeLLMGenerator (garak/generators/langchain_serve.py):       *)
(* construction from the LANGCHAIN_SERVE_URI environment variable, the     *)
(* static URI validator, and _call_model's single HTTP POST with its       *)
(* exception handlers and response parsing.                                *)
(*                                                                         *)
(* Strings that the code parses or concatenates (URIs) are sequences of    *)
(* one-character strings.  Python values that cross the adapter boundary   *)
(* are records [t |-> type name, v |-> printed value].                     *)
(***************************************************************************)
EXTENDS Integers, Sequences, FiniteSets, TLC

VARIABLES
    env,        \* os.environ["LANGCHAIN_SERVE_URI"]: [set, val]
    gen,        \* the adapter instance: [alive, name, generations, api_endpoint, config_hash]
    built,      \* the instance's fields as they were when __init__ returned
    ctor,       \* the last constructor call: [called, outcome]
    vres,       \* the last direct _validate_uri call: [called, arg, outcome, value]
    pc,         \* position inside _call_model
    prompt,     \* _call_model's argument
    response,   \* the local variable `response`: [bound, status, body]
    exc,        \* the exception in flight in the first try block ("" when none)
    wire,       \* the requests this invocation has sent
    parsed,     \* whether this invocation called response.json()
    ret,        \* how the invocation ended: [outcome, value]
    memo        \* one earlier invocation, remembered: [set, prompt, reply, ret]

vars == <<env, gen, built, ctor, vres, pc, prompt, response, exc, wire, parsed, ret, memo>>

----------------------------------------------------------------------------
(* Bounds *)

MaxUriLen == 5
NumPrompts == 2

----------------------------------------------------------------------------
(* Program constants *)

DefaultGenerations == 10
ClientErrorMin == 400
ServerErrorMin == 500
ServerErrorMax == 600

ConfigHash == "default"
Invoke == <<"/", "i", "n", "v", "o", "k", "e">>

----------------------------------------------------------------------------
(* Python values *)

PyNone == [t |-> "NoneType", v |-> "None"]
PyStr(s) == [t |-> "str", v |-> s]
PyList(s) == [t |-> "list", v |-> s]
NoOutputGenerated == PyStr("No output generated")

----------------------------------------------------------------------------
(* URIs: urllib.parse.urlparse as _validate_uri uses it *)

Alpha == {"h"}
Digit == {"1"}
SchemeChars == Alpha \cup Digit
NetlocEnd == {"/", "?", "#"}
Alphabet == Alpha \cup Digit \cup {":", "/", "["}

AllUris == UNION {[1..n -> Alphabet] : n \in 0..MaxUriLen}

Unset == [set |-> FALSE, val |-> <<>>]
EnvOf(u) == [set |-> TRUE, val |-> u]
AllEnvs == {Unset} \cup {EnvOf(u) : u \in AllUris}

GoodUri == <<"h", ":", "/", "/", "h">>
TestEnvs == {Unset, EnvOf(<<>>), EnvOf(<<"h", "1">>), EnvOf(<<"h", ":">>),
             EnvOf(<<"h", ":", "/", "/", "[">>), EnvOf(GoodUri)}

\* str.find: the first position of c in s, 0 when c is not in s
Find(s, c) ==
    IF \E k \in 1..Len(s) : s[k] = c
    THEN CHOOSE k \in 1..Len(s) : s[k] = c /\ \A j \in 1..(k - 1) : s[j] # c
    ELSE 0

\* the netloc of a string that starts with "//": up to the first of "/?#"
SplitNetloc(s) ==
    LET stops == {k \in 3..Len(s) : s[k] \in NetlocEnd}
        stop == IF stops = {} THEN Len(s) + 1
                ELSE CHOOSE k \in stops : \A j \in stops : k <= j
    IN SubSeq(s, 3, stop - 1)

Contains(s, c) == \E k \in 1..Len(s) : s[k] = c

\* urlparse(url) for a str: [raised, scheme, netloc].  The scheme is the text
\* before the first ":" when that text is a letter followed by scheme
\* characters (lower() changes no character of Alphabet); the netloc follows
\* a leading "//"; an unpaired bracket in it raises ValueError.
urlparse(url) ==
    LET i == Find(url, ":")
        hasScheme == /\ i >= 2
                     /\ url[1] \in Alpha
                     /\ \A k \in 1..(i - 1) : url[k] \in SchemeChars
        scheme == IF hasScheme THEN SubSeq(url, 1, i - 1) ELSE <<>>
        rest == IF hasScheme THEN SubSeq(url, i + 1, Len(url)) ELSE url
        slashes == Len(rest) >= 2 /\ rest[1] = "/" /\ rest[2] = "/"
        netloc == IF slashes THEN SplitNetloc(rest) ELSE <<>>
        badBracket == \/ (Contains(netloc, "[") /\ ~Contains(netloc, "]"))
                      \/ (Contains(netloc, "]") /\ ~Contains(netloc, "["))
    IN [raised |-> slashes /\ badBracket, scheme |-> scheme, netloc |-> netloc]

\* any([scheme, netloc]) in place of all([...])
validate_uri_any(uri) ==
    IF ~uri.set
    THEN [outcome |-> "returned", value |-> FALSE]
    ELSE LET result == urlparse(uri.val)
         IN IF result.raised
            THEN [outcome |-> "returned", value |-> FALSE]
            ELSE [outcome |-> "returned",
                  value |-> (result.scheme # <<>> \/ result.netloc # <<>>)]

\* _validate_uri(uri): [outcome, value].  urlparse(None) yields empty
\* components; a ValueError from urlparse is caught and gives False.
validate_uri(uri) ==
    IF ~uri.set
    THEN [outcome |-> "returned", value |-> FALSE]
    ELSE LET result == urlparse(uri.val)
         IN IF result.raised
            THEN [outcome |-> "returned", value |-> FALSE]
            ELSE [outcome |-> "returned",
                  value |-> (result.scheme # <<>> /\ result.netloc # <<>>)]

----------------------------------------------------------------------------
(* The adapter instance *)

NoAdapter == [alive |-> FALSE, name |-> "", generations |-> 0,
              api_endpoint |-> <<>>, config_hash |-> ""]

CtorArgs == {[name |-> "test-generator", generations |-> DefaultGenerations],
             [name |-> "g", generations |-> 1]}

\* Generator.__init__(name, generations): keeps the two fields
Generator_init(self, name, generations) ==
    [self EXCEPT !.name = name, !.generations = generations]

NewAdapter(a) ==
    Generator_init([alive |-> TRUE, name |-> a.name, generations |-> a.generations,
                    api_endpoint |-> env.val \o Invoke, config_hash |-> ConfigHash],
                   a.name, a.generations)

\* __init__ without the _validate_uri test
init_unvalidated ==
    /\ ~gen.alive
    /\ pc = "idle"
    /\ \E a \in CtorArgs :
         /\ gen' = NewAdapter(a)
         /\ built' = NewAdapter(a)
         /\ ctor' = [called |-> TRUE, outcome |-> "ok"]
    /\ UNCHANGED <<env, vres, pc, prompt, response, exc, wire, parsed, ret, memo>>

\* LangChainServeLLMGenerator(name, generations)
init ==
    /\ ~gen.alive
    /\ pc = "idle"
    /\ \E a \in CtorArgs :
         IF ~validate_uri(env).value
         THEN /\ ctor' = [called |-> TRUE, outcome |-> "ValueError"]
              /\ UNCHANGED <<gen, built>>
         ELSE /\ gen' = NewAdapter(a)
              /\ built' = NewAdapter(a)
              /\ ctor' = [called |-> TRUE, outcome |-> "ok"]
    /\ UNCHANGED <<env, vres, pc, prompt, response, exc, wire, parsed, ret, memo>>

\* a direct call of the static method on the argument drawn at the start
validate_uri_call ==
    /\ ~vres.called
    /\ vres' = [called |-> TRUE, arg |-> vres.arg,
                outcome |-> validate_uri(vres.arg).outcome,
                value |-> validate_uri(vres.arg).value]
    /\ UNCHANGED <<env, gen, built, ctor, pc, prompt, response, exc, wire, parsed, ret, memo>>

----------------------------------------------------------------------------
(* The endpoint: what requests.post can do *)

Prompts == 1..NumPrompts

Statuses == {200, 399, ClientErrorMin, ServerErrorMin - 1, ServerErrorMin,
             ServerErrorMax - 1, ServerErrorMax}

\* exception classes requests.post may raise
ExcKinds == {"HTTPError", "ConnectionError", "ValueError"}
IsHTTPError(k) == k = "HTTPError"
IsRequestException(k) == k \in {"HTTPError", "ConnectionError"}

\* A response body with what json.loads makes of it: valid, the Python type
\* t of the value, members (what `x in value` is true of: keys of a dict,
\* items of a list, substrings of a str), output (the dict's "output" item).
Body(raw, valid, t, members, output) ==
    [raw |-> raw, valid |-> valid, t |-> t, members |-> members, output |-> output]

NoBody == Body("", FALSE, "", {}, PyNone)

Bodies ==
    { Body("<html>", FALSE, "", {}, PyNone),
      Body("null", TRUE, "NoneType", {}, PyNone),
      Body("5", TRUE, "int", {}, PyNone),
      Body("'hello'", TRUE, "str", {"hello"}, PyNone),
      Body("'the output'", TRUE, "str", {"the", "output"}, PyNone),
      Body("[]", TRUE, "list", {}, PyNone),
      Body("['output']", TRUE, "list", {"output"}, PyNone),
      Body("{}", TRUE, "dict", {}, PyNone),
      Body("{'error': 'x'}", TRUE, "dict", {"error"}, PyNone),
      Body("{'output': null}", TRUE, "dict", {"output"}, PyNone),
      Body("{'output': ''}", TRUE, "dict", {"output"}, PyStr("")),
      Body("{'output': []}", TRUE, "dict", {"output"}, PyList("[]")),
      Body("{'output': 'Generated text'}", TRUE, "dict", {"output"}, PyStr("Generated text")),
      Body("{'output': ['Generated text']}", TRUE, "dict", {"output"},
           PyList("['Generated text']")) }

Unbound == [bound |-> FALSE, status |-> 0, body |-> NoBody]

NoRet == [outcome |-> "none", value |-> PyNone]
Returned(v) == [outcome |-> "returned", value |-> v]
Raised(k) == [outcome |-> "raised", value |-> [t |-> "exception", v |-> k]]

\* what the endpoint did in this invocation
Reply == IF response.bound
         THEN [kind |-> "response", status |-> response.status, body |-> response.body]
         ELSE [kind |-> exc, status |-> 0, body |-> NoBody]

NoMemo == [set |-> FALSE, prompt |-> 0,
           reply |-> [kind |-> "", status |-> 0, body |-> NoBody], ret |-> NoRet]

----------------------------------------------------------------------------
(* _call_model *)

\* entry: headers and payload are built
call_model ==
    /\ gen.alive
    /\ pc = "idle"
    /\ \E p \in Prompts : prompt' = p
    /\ pc' = "post"
    /\ response' = Unbound
    /\ exc' = ""
    /\ wire' = <<>>
    /\ parsed' = FALSE
    /\ ret' = NoRet
    /\ UNCHANGED <<env, gen, built, ctor, vres, memo>>

Request == [url |-> gen.api_endpoint, query |-> <<"config_hash", gen.config_hash>>,
            input |-> prompt]

\* requests.post with the query appended to self.api_endpoint in place
requests_post_inplace ==
    /\ pc = "post"
    /\ wire' = Append(wire, Request)
    /\ gen' = [gen EXCEPT !.api_endpoint = built.api_endpoint \o <<"?">>]
    /\ \/ \E s \in Statuses, b \in Bodies :
            /\ response' = [bound |-> TRUE, status |-> s, body |-> b]
            /\ pc' = "raise_for_status"
            /\ exc' = exc
       \/ \E k \in ExcKinds :
            /\ exc' = k
            /\ pc' = "except"
            /\ response' = response
    /\ UNCHANGED <<env, built, ctor, vres, prompt, parsed, ret, memo>>

\* response = requests.post(...): a response is bound, or post raises
requests_post ==
    /\ pc = "post"
    /\ wire' = Append(wire, Request)
    /\ \/ \E s \in Statuses, b \in Bodies :
            /\ response' = [bound |-> TRUE, status |-> s, body |-> b]
            /\ pc' = "raise_for_status"
            /\ exc' = exc
       \/ \E k \in ExcKinds :
            /\ exc' = k
            /\ pc' = "except"
            /\ response' = response
    /\ UNCHANGED <<env, gen, built, ctor, vres, prompt, parsed, ret, memo>>

\* response.raise_for_status(): HTTPError for 400 <= status < 600
raise_for_status ==
    /\ pc = "raise_for_status"
    /\ IF ClientErrorMin <= response.status /\ response.status < ServerErrorMax
       THEN exc' = "HTTPError" /\ pc' = "except"
       ELSE exc' = exc /\ pc' = "parse"
    /\ UNCHANGED <<env, gen, built, ctor, vres, prompt, response, wire, parsed, ret, memo>>

\* the HTTPError handler with the 5xx branch re-raising
except_HTTPError_reraise ==
    /\ pc = "except"
    /\ IsHTTPError(exc)
    /\ IF ~response.bound
       THEN ret' = Raised("UnboundLocalError") /\ pc' = "done"
       ELSE IF ClientErrorMin <= response.status /\ response.status < ServerErrorMin
       THEN ret' = Returned(PyNone) /\ pc' = "done"
       ELSE IF ServerErrorMin <= response.status /\ response.status < ServerErrorMax
       THEN ret' = Raised("HTTPError") /\ pc' = "done"
       ELSE ret' = ret /\ pc' = "parse"
    /\ UNCHANGED <<env, gen, built, ctor, vres, prompt, response, exc, wire, parsed, memo>>

\* except requests.exceptions.HTTPError: reads response.status_code
except_HTTPError ==
    /\ pc = "except"
    /\ IsHTTPError(exc)
    /\ IF ~response.bound
       THEN ret' = Raised("UnboundLocalError") /\ pc' = "done"
       ELSE IF ClientErrorMin <= response.status /\ response.status < ServerErrorMin
       THEN ret' = Returned(PyNone) /\ pc' = "done"
       ELSE IF ServerErrorMin <= response.status /\ response.status < ServerErrorMax
       THEN ret' = Returned(PyNone) /\ pc' = "done"
       ELSE ret' = ret /\ pc' = "parse"
    /\ UNCHANGED <<env, gen, built, ctor, vres, prompt, response, exc, wire, parsed, memo>>

\* the RequestException handler trying the request once more
except_RequestException_retry ==
    /\ pc = "except"
    /\ ~IsHTTPError(exc)
    /\ IsRequestException(exc)
    /\ IF Len(wire) < 2
       THEN pc' = "post" /\ ret' = ret
       ELSE pc' = "done" /\ ret' = Returned(PyNone)
    /\ UNCHANGED <<env, gen, built, ctor, vres, prompt, response, exc, wire, parsed, memo>>

\* except requests.exceptions.RequestException: return None
except_RequestException ==
    /\ pc = "except"
    /\ ~IsHTTPError(exc)
    /\ IsRequestException(exc)
    /\ ret' = Returned(PyNone)
    /\ pc' = "done"
    /\ UNCHANGED <<env, gen, built, ctor, vres, prompt, response, exc, wire, parsed, memo>>

\* an exception neither handler matches leaves _call_model
propagate ==
    /\ pc = "except"
    /\ ~IsRequestException(exc)
    /\ ret' = Raised(exc)
    /\ pc' = "done"
    /\ UNCHANGED <<env, gen, built, ctor, vres, prompt, response, exc, wire, parsed, memo>>

\* the second try block with a missing output giving None
parse_output_none(body) ==
    IF ~body.valid THEN PyNone
    ELSE IF body.t \notin {"dict", "list", "str"} THEN PyNone
    ELSE IF "output" \notin body.members THEN PyNone
    ELSE IF body.t # "dict" THEN PyNone
    ELSE IF body.output = PyNone THEN PyNone
    ELSE body.output

\* the second try block: response.json(), the "output" test, the handlers
parse_output(body) ==
    IF ~body.valid THEN PyNone                                  \* JSONDecodeError
    ELSE IF body.t \notin {"dict", "list", "str"} THEN PyNone   \* `in`: TypeError
    ELSE IF "output" \notin body.members THEN NoOutputGenerated
    ELSE IF body.t # "dict" THEN PyNone                         \* ["output"]: TypeError
    ELSE IF body.output = PyNone THEN NoOutputGenerated
    ELSE body.output

response_json ==
    /\ pc = "parse"
    /\ parsed' = TRUE
    /\ ret' = IF ~response.bound THEN Returned(PyNone)          \* UnboundLocalError, caught
              ELSE Returned(parse_output(response.body))
    /\ pc' = "done"
    /\ UNCHANGED <<env, gen, built, ctor, vres, prompt, response, exc, wire, memo>>

\* back in the caller, which may keep this invocation to compare with later ones
call_model_exit ==
    /\ pc = "done"
    /\ pc' = "idle"
    /\ \/ memo' = memo
       \/ memo' = [set |-> TRUE, prompt |-> prompt, reply |-> Reply, ret |-> ret]
    /\ UNCHANGED <<env, gen, built, ctor, vres, prompt, response, exc, wire, parsed, ret>>

----------------------------------------------------------------------------
(* Specifications *)

InitWith(envs, args) ==
    /\ env \in envs
    /\ gen = NoAdapter
    /\ built = NoAdapter
    /\ ctor = [called |-> FALSE, outcome |-> "none"]
    /\ vres \in {[called |-> FALSE, arg |-> a, outcome |-> "none", value |-> FALSE] : a \in args}
    /\ pc = "idle"
    /\ prompt = 0
    /\ response = Unbound
    /\ exc = ""
    /\ wire = <<>>
    /\ parsed = FALSE
    /\ ret = NoRet
    /\ memo = NoMemo

\* the adapter's life: construction, then invocations
Init == InitWith(TestEnvs, {Unset})

Next ==
    \/ init
    \/ call_model
    \/ requests_post
    \/ raise_for_status
    \/ except_HTTPError
    \/ except_RequestException
    \/ propagate
    \/ response_json
    \/ call_model_exit

Spec == Init /\ [][Next]_vars

\* construction over every environment value up to MaxUriLen
InitCtor == InitWith(AllEnvs, {Unset})
NextCtor == init
SpecCtor == InitCtor /\ [][NextCtor]_vars

\* the static validator over every argument up to MaxUriLen
InitUri == InitWith({Unset}, AllEnvs)
NextUri == validate_uri_call
SpecUri == InitUri /\ [][NextUri]_vars

----------------------------------------------------------------------------
(* Properties *)

Done == pc = "done"
Answered == response.bound
ErrorStatus(s) == ClientErrorMin <= s /\ s < ServerErrorMax
SuccessStatus(s) == 200 <= s /\ s < 300

\* e is a str of the form scheme "://" netloc [("/" | "?" | "#") ...] with a
\* scheme of letter then scheme characters and a non-empty netloc whose
\* brackets pair up
IsAbsoluteUri(e) ==
    /\ e.set
    /\ LET u == e.val
       IN \E i \in 1..Len(u), j \in 1..Len(u) :
            /\ i + 4 <= j
            /\ u[1] \in Alpha
            /\ \A k \in 1..i : u[k] \in SchemeChars
            /\ u[i + 1] = ":" /\ u[i + 2] = "/" /\ u[i + 3] = "/"
            /\ \A k \in (i + 4)..j : u[k] \notin NetlocEnd
            /\ (j = Len(u) \/ u[j + 1] \in NetlocEnd)
            /\ (\E k \in (i + 4)..j : u[k] = "[") <=> (\E k \in (i + 4)..j : u[k] = "]")

\* has the parsed JSON an "output" field that is not null?
HasOutput(body) == body.t = "dict" /\ "output" \in body.members /\ body.output # PyNone

(* C1: every invocation of _call_model on a constructed adapter ends by
   returning a value, whatever the request did; it never raises. *)
C1_CallNeverRaises == Done => ret.outcome = "returned"

(* C2: when the endpoint answers with a status in 400..599, _call_model
   returns None, does not raise and does not parse the body. *)
C2_ErrorStatusReturnsNone ==
    (Done /\ Answered /\ ErrorStatus(response.status))
        => (ret = Returned(PyNone) /\ ~parsed)

C2_Witness ==
    Done /\ Answered /\ response.status = ServerErrorMin /\ ret = Returned(PyNone) /\ ~parsed

(* C3: when the endpoint answers with HTTP 500, _call_model raises an
   exception to its caller. *)
C3_Status500Raises ==
    (Done /\ Answered /\ response.status = ServerErrorMin) => ret.outcome = "raised"

(* C4 as stated: on a success response whose body parses as JSON, a parsed
   value with no output field or a null output gives "No output generated",
   and a present non-null output is returned unchanged. *)
C4_AnyJsonOutputOrSentinel ==
    (Done /\ Answered /\ SuccessStatus(response.status) /\ response.body.valid)
        => ret = Returned(IF HasOutput(response.body) THEN response.body.output
                          ELSE NoOutputGenerated)

(* C4 amended: on a success response whose body parses as a JSON object, a
   missing or null output gives "No output generated" (never None), and a
   present non-null output (the empty string and the empty sequence
   included) is returned unchanged. *)
C4_JsonObjectOutputOrSentinel ==
    (Done /\ Answered /\ SuccessStatus(response.status) /\ response.body.valid
          /\ response.body.t = "dict")
        => ret = Returned(IF HasOutput(response.body) THEN response.body.output
                          ELSE NoOutputGenerated)

C4_Witness ==
    /\ Done /\ Answered /\ response.status = 200
    /\ response.body.raw = "{}"
    /\ ret = Returned(NoOutputGenerated)

(* C5: when the endpoint answers HTTP 200 with a JSON object that has no
   output field, _call_model returns None. *)
C5_MissingOutputReturnsNone ==
    (Done /\ Answered /\ response.status = 200 /\ response.body.t = "dict"
          /\ "output" \notin response.body.members)
        => ret = Returned(PyNone)

(* C6: the constructor raises ValueError and yields no adapter exactly when
   LANGCHAIN_SERVE_URI is unset, empty or fails _validate_uri; otherwise it
   yields an adapter whose api_endpoint is the environment value followed
   by "/invoke".  No adapter with an invalid endpoint base exists. *)
C6_ConstructorOutcomes ==
    /\ ctor.called =>
         /\ ctor.outcome \in {"ValueError", "ok"}
         /\ ctor.outcome = "ValueError"
              <=> (~env.set \/ env.val = <<>> \/ ~validate_uri(env).value)
         /\ ctor.outcome = "ValueError" => ~gen.alive
         /\ ctor.outcome = "ok" => (gen.alive /\ gen.api_endpoint = env.val \o Invoke)
    /\ gen.alive =>
         /\ ctor.called /\ ctor.outcome = "ok"
         /\ IsAbsoluteUri(env)
         /\ gen.api_endpoint = env.val \o Invoke

C6_Witness ==
    /\ ctor.called /\ ctor.outcome = "ok" /\ gen.alive
    /\ gen.api_endpoint = GoodUri \o Invoke

(* C7: for every argument, a missing value included, _validate_uri returns
   a boolean and does not raise, and the boolean is true exactly when the
   argument parses into a URI with a non-empty scheme and a non-empty
   network location; a parse exception gives false. *)
C7_ValidateUriTotal ==
    vres.called =>
        /\ vres.outcome = "returned"
        /\ vres.value \in BOOLEAN
        /\ vres.value <=> IsAbsoluteUri(vres.arg)

C7_Witness ==
    /\ vres.called /\ vres.outcome = "returned" /\ ~vres.value
    /\ vres.arg.set /\ urlparse(vres.arg.val).raised

(* C8: an invocation sends exactly one POST, to api_endpoint with query
   config_hash=default, before it ends; no outcome of the request leads to
   a second one. *)
C8_SinglePost ==
    /\ Len(wire) <= 1
    /\ Done =>
         /\ Len(wire) = 1
         /\ wire[1].url = built.api_endpoint
         /\ wire[1].query = <<"config_hash", ConfigHash>>
         /\ wire[1].input = prompt

C8_Witness ==
    Done /\ ~Answered /\ exc = "ConnectionError" /\ Len(wire) = 1 /\ ret = Returned(PyNone)

(* C9: invocations leave the adapter's configuration as construction made
   it, and an invocation's result is the same as that of any earlier
   invocation with the same prompt and the same reply of the endpoint. *)
C9_ConfigFrozenAndDeterministic ==
    /\ gen.alive => gen = built
    /\ (Done /\ memo.set /\ memo.prompt = prompt /\ memo.reply = Reply) => ret = memo.ret

C9_Witness ==
    /\ Done /\ memo.set /\ memo.prompt = prompt /\ memo.reply = Reply
    /\ Answered /\ ret = memo.ret /\ gen = built

(* C10: the HTTP-error handler and the body parse read `response` only
   when this invocation received one, and the HTTP-error handler never
   falls through to the body parse. *)
C10_ResponseBoundWhenRead ==
    /\ (pc = "except" /\ IsHTTPError(exc)) => response.bound
    /\ pc = "parse" => (response.bound /\ exc = "")

====
